---- MODULE Spec2Model ----
(***************************************************************************)
(* State machine of stealth_tool.py: the saved-state file, the host the    *)
(* tool acts on (NetworkManager, the wireless adapters) and the four menu  *)
(* operations that read and write the saved state.                        *)
(*                                                                         *)
(* Every external command started through run() either has its effect and *)
(* returns a result, or has no effect and returns None; a command naming   *)
(* an interface that does not exist always fails.  The state directory is  *)
(* writable (check_root), so save_state and clear_state take effect.       *)
(***************************************************************************)
EXTENDS Integers, Sequences, FiniteSets, TLC

VARIABLES
  file,      \* STATE_FILE: [exists, valid, data]; data is the dict written
             \* last, valid says that the bytes still parse as that dict
  host,      \* the machine: [nm, renamed, mode, mac]
  airmon,    \* shutil.which('airmon-ng') finds the helper
  macchanger,\* shutil.which('macchanger') finds the helper
  log,       \* Executor commands issued by the latest operation, in order,
             \* with "save_state" and "clear_state" where it wrote or removed
             \* the state file (the Inventory reads `iw dev` and
             \* `ip link show` are not logged)
  last,      \* what the latest operation was given and observed
  chain,     \* how far the latest operations got through the sequences
             \* stealth_mode, mac_spoof, restore_changes and
             \* stealth_mode, restore_changes ("" when they match neither)
  ops,       \* number of menu operations carried out so far
  faults,    \* number of external commands that have failed so far, and
             \* of damages to the state file
  firstHw,   \* per interface: hardware address seen by the host just before
             \* the first mac_spoof on it since the state file was last removed
  octets     \* the list `mac` that generate_random_mac built in the latest
             \* operation, <<>> if it was not called

vars == <<file, host, airmon, macchanger, log, last, chain, ops, faults,
          firstHw, octets>>

----------------------------------------------------------------------------
(* Bounds *)

\* number of menu operations in one behaviour
MaxOps == 3

\* number of external commands that fail in one behaviour
MaxFaults == 1

----------------------------------------------------------------------------
(* The host *)

\* the wireless adapters plugged in, under their managed-mode names,
\* in the order `iw dev` lists them
AdapterOrder == <<"wlan0", "wlan1">>

Adapters == {AdapterOrder[i] : i \in 1..Len(AdapterOrder)}

\* factory address of each adapter
PermMac == [a \in Adapters |->
              IF a = "wlan0" THEN "00:11:22:33:44:55" ELSE "00:11:22:33:44:66"]

\* current name of adapter a: airmon-ng may have renamed it
NameOf(h, a) == IF h.renamed[a] THEN a \o "mon" ELSE a

\* the adapter currently carrying the name iface (none or one)
AdapterNamed(h, iface) == {a \in Adapters : NameOf(h, a) = iface}

\* every name an adapter may carry
Names == Adapters \cup {a \o "mon" : a \in Adapters}

InitHost == [nm      |-> TRUE,
             renamed |-> [a \in Adapters |-> FALSE],
             mode    |-> [a \in Adapters |-> "managed"],
             mac     |-> PermMac]

----------------------------------------------------------------------------
(* Python dicts: functions whose domain is the set of keys present *)

EmptyDict == [k \in {} |-> TRUE]

Has(d, k) == k \in DOMAIN d

Put(d, k, v) == [x \in (DOMAIN d) \cup {k} |-> IF x = k THEN v ELSE d[x]]

\* d.get(k, {}) for the two address maps
GetMap(d, k) == IF Has(d, k) THEN d[k] ELSE EmptyDict

\* a fixed enumeration of a finite set
RECURSIVE SeqOf(_)
SeqOf(S) == IF S = {} THEN <<>>
            ELSE LET x == CHOOSE y \in S : TRUE IN <<x>> \o SeqOf(S \ {x})

Range(s) == {s[i] : i \in 1..Len(s)}

----------------------------------------------------------------------------
(* State store *)

NoFile == [exists |-> FALSE, valid |-> TRUE, data |-> EmptyDict]

\* load_state that takes whatever is in the file for the saved dict
load_state_unchecked(f) == IF f.exists THEN f.data ELSE EmptyDict

\* {} when the file is missing and when json.loads raises
load_state(f) == IF f.exists /\ f.valid THEN f.data ELSE EmptyDict

save_state(state) == [exists |-> TRUE, valid |-> TRUE, data |-> state]

\* clear_state that leaves the file in place
clear_state_keeps(f) == f

\* unlink the file if it is there
clear_state(f) == IF f.exists THEN NoFile ELSE f

----------------------------------------------------------------------------
(* Inventory *)

\* `iw dev` succeeded: the present interface names; failed: the empty list.
\* (the `ip -brief link` fallback is taken only when `iw dev` lists nothing,
\* which does not happen while the adapters stay plugged in)
detect_wireless_interfaces(h, ok) ==
  IF ok THEN [i \in 1..Len(AdapterOrder) |-> NameOf(h, AdapterOrder[i])]
  ELSE <<>>

\* None is the empty string: both are falsy where the code tests the result
None == ""

\* the operator typed the number `choice`
choose_interface(ifaces, choice) ==
  IF ifaces = <<>> THEN None
  ELSE LET idx == choice - 1
       IN IF 0 <= idx /\ idx < Len(ifaces) THEN ifaces[idx + 1] ELSE None

HexDigit == <<"0", "1", "2", "3", "4", "5", "6", "7",
              "8", "9", "a", "b", "c", "d", "e", "f">>

\* f"{b:02x}"
Hex02(b) == HexDigit[(b \div 16) + 1] \o HexDigit[(b % 16) + 1]

\* the list with a drawn first octet as well
generate_random_mac_octets_anyFirst(rnd) == <<rnd[1]>> \o rnd

\* the list built before formatting; rnd holds the five random octets
generate_random_mac_octets(rnd) == <<2>> \o rnd

generate_random_mac(rnd) ==
  LET mac == generate_random_mac_octets(rnd)
  IN Hex02(mac[1]) \o ":" \o Hex02(mac[2]) \o ":" \o Hex02(mac[3]) \o ":" \o
     Hex02(mac[4]) \o ":" \o Hex02(mac[5]) \o ":" \o Hex02(mac[6])

\* the upper end of random.randint(0x00, 0xff)
MaxOctet == 255

\* outcomes of the five draws in which one octet takes any value and the
\* other four sit together at one end of the range
OctetDraws ==
  {[j \in 1..5 |-> IF j = k THEN v ELSE e] :
     k \in 1..5, v \in 0..MaxOctet, e \in {0, MaxOctet}}

\* two outcomes of the five random.randint(0x00, 0xff) draws
RandomOctets == {<<170, 187, 204, 221, 238>>, <<0, 17, 34, 51, 255>>}

GeneratedMacs == {generate_random_mac(rnd) : rnd \in RandomOctets}

\* run() on a command that names iface has its effect
Effective(h, iface, ok) == ok /\ AdapterNamed(h, iface) # {}

\* `ip link show iface`, then the link/ether match
get_current_mac(h, iface, ok) ==
  IF Effective(h, iface, ok)
  THEN h.mac[CHOOSE a \in AdapterNamed(h, iface) : TRUE]
  ELSE None

----------------------------------------------------------------------------
(* Executor: effect of each command on the host *)

SystemctlStop(h, ok) == IF ok THEN [h EXCEPT !.nm = FALSE] ELSE h

SystemctlStart(h, ok) == IF ok THEN [h EXCEPT !.nm = TRUE] ELSE h

\* airmon-ng start: monitor mode on; the helper renames the interface to
\* <name>mon (renames) or keeps the name
AirmonStart(h, iface, ok, renames) ==
  IF Effective(h, iface, ok)
  THEN LET a == CHOOSE b \in AdapterNamed(h, iface) : TRUE
       IN [h EXCEPT !.mode[a] = "monitor",
                    !.renamed[a] = h.renamed[a] \/ renames]
  ELSE h

\* airmon-ng stop: managed mode and the managed-mode name are back
AirmonStop(h, iface, ok) ==
  IF Effective(h, iface, ok)
  THEN LET a == CHOOSE b \in AdapterNamed(h, iface) : TRUE
       IN [h EXCEPT !.mode[a] = "managed", !.renamed[a] = FALSE]
  ELSE h

\* iw dev <iface> set type <type>
IwSetType(h, iface, type, ok) ==
  IF Effective(h, iface, ok)
  THEN LET a == CHOOSE b \in AdapterNamed(h, iface) : TRUE
       IN [h EXCEPT !.mode[a] = type]
  ELSE h

\* macchanger -m <mac> <iface>, or ip link set dev <iface> address <mac>
SetAddress(h, iface, mac, ok) ==
  IF Effective(h, iface, ok)
  THEN LET a == CHOOSE b \in AdapterNamed(h, iface) : TRUE
       IN [h EXCEPT !.mac[a] = mac]
  ELSE h

\* macchanger -p <iface>
RevertAddress(h, iface, ok) ==
  IF Effective(h, iface, ok)
  THEN LET a == CHOOSE b \in AdapterNamed(h, iface) : TRUE
       IN [h EXCEPT !.mac[a] = PermMac[a]]
  ELSE h

\* the three commands that set an address, by helper
SetAddressCmds(iface, mac) ==
  IF macchanger
  THEN <<"ip link set " \o iface \o " down",
         "macchanger -m " \o mac \o " " \o iface,
         "ip link set " \o iface \o " up">>
  ELSE <<"ip link set " \o iface \o " down",
         "ip link set dev " \o iface \o " address " \o mac,
         "ip link set " \o iface \o " up">>

----------------------------------------------------------------------------
(* What an operation leaves behind for inspection *)

\* op: the operation; aborted: it returned before its first command;
\* iface: the interface it was applied to; loaded: the state it loaded;
\* before, after: the two enumerations of stealth_mode; ans: the answer to
\* the monitor-mode question ("" when it was not asked); okCmds: the
\* commands that took effect; mac: the address mac_spoof generated
Report(op, aborted, iface, loaded, before, after, ans, okCmds, mac) ==
  [op |-> op, aborted |-> aborted, iface |-> iface, loaded |-> loaded,
   before |-> before, after |-> after, ans |-> ans, okCmds |-> okCmds,
   mac |-> mac]

NoReport == Report("none", FALSE, None, EmptyDict, <<>>, <<>>, "", {}, None)

\* chain after an operation that reports r
NextChain(r) ==
  IF r.aborted THEN ""
  ELSE IF r.op = "ApplyStealthMode" THEN "Apply"
  ELSE IF r.op = "SpoofAddress" /\ chain = "Apply" THEN "Apply;Spoof"
  ELSE IF r.op = "RestoreAll" /\ chain = "Apply" THEN "Apply;Restore"
  ELSE IF r.op = "RestoreAll" /\ chain = "Apply;Spoof"
       THEN "Apply;Spoof;Restore"
  ELSE ""

\* an early return that removes the state file on its way out
Aborted_clears(op) ==
  [file |-> clear_state(file), host |-> host, log |-> <<>>,
   last |-> Report(op, TRUE, None, load_state(file), <<>>, <<>>, "", {}, None)]

\* an operation that returned before touching anything
Aborted(op) ==
  [file |-> file, host |-> host, log |-> <<>>,
   last |-> Report(op, TRUE, None, load_state(file), <<>>, <<>>, "", {}, None)]

----------------------------------------------------------------------------
(* stealth_mode *)

\* the flag set whatever `systemctl stop` returned
NmStopState_unchecked(state, okStop) ==
  Put(state, "networkmanager_stopped", TRUE)

\* res of `systemctl stop NetworkManager` decides the flag
NmStopState(state, okStop) ==
  IF okStop THEN Put(state, "networkmanager_stopped", TRUE) ELSE state

\* the scan without the `not in before_ifaces` test
MonIface_unfiltered(after_ifaces, before_ifaces, iface) ==
  IF after_ifaces # <<>> THEN after_ifaces[1] ELSE iface \o "mon"

\* first element of after_ifaces not in before_ifaces, else iface + 'mon'
MonIface(after_ifaces, before_ifaces, iface) ==
  LET new == {i \in 1..Len(after_ifaces) :
                after_ifaces[i] \notin Range(before_ifaces)}
  IN IF new # {}
     THEN after_ifaces[CHOOSE i \in new : \A j \in new : i <= j]
     ELSE iface \o "mon"

\* the monitor interface recorded without the interface it came from
MonitorFields_noOriginal(state, mon_iface, iface) ==
  Put(state, "monitor_interface", mon_iface)

MonitorFields(state, mon_iface, iface) ==
  Put(Put(state, "monitor_interface", mon_iface), "original_interface", iface)

\* the body after the confirmation and the interface choice.
\* okSwitch is the outcome of `airmon-ng start` (helper present) or of
\* `iw dev ... set type monitor` (helper absent).
stealth_mode(iface, okBefore, okStop, okSwitch, renames, okAfter) ==
  LET state0        == load_state(file)
      before_ifaces == detect_wireless_interfaces(host, okBefore)
      host1         == SystemctlStop(host, okStop)
      state1        == NmStopState(state0, okStop)
      host2         == IF airmon
                       THEN AirmonStart(host1, iface, okSwitch, renames)
                       ELSE IwSetType(host1, iface, "monitor", okSwitch)
      after_ifaces  == IF airmon
                       THEN detect_wireless_interfaces(host2, okAfter)
                       ELSE <<>>
      mon_iface     == IF airmon
                       THEN MonIface(after_ifaces, before_ifaces, iface)
                       ELSE iface
      state2        == MonitorFields(state1, mon_iface, iface)
      cmds          == <<"systemctl stop NetworkManager">>
                       \o (IF okStop THEN <<"save_state">> ELSE <<>>)
                       \o (IF airmon THEN <<"airmon-ng check kill">> ELSE <<>>)
                       \o <<"ip link set " \o iface \o " down">>
                       \o (IF airmon
                           THEN <<"airmon-ng start " \o iface>>
                           ELSE <<"iw dev " \o iface \o " set type monitor",
                                  "ip link set " \o iface \o " up">>)
                       \o <<"save_state">>
      okCmds        == (IF okStop THEN {"nm_stop"} ELSE {})
                       \cup (IF Effective(host1, iface, okSwitch)
                             THEN {"mode_switch"} ELSE {})
  IN [file |-> save_state(state2), host |-> host2, log |-> cmds,
      last |-> Report("ApplyStealthMode", FALSE, iface, state0,
                      before_ifaces, after_ifaces, "", okCmds, None)]

----------------------------------------------------------------------------
(* mac_spoof *)

\* line 216: the map of original addresses is there from now on
WithOriginals(state) ==
  IF Has(state, "original_macs") THEN state
  ELSE Put(state, "original_macs", EmptyDict)

\* the capture repeated on every call
NeedsCapture_always(state, iface) == TRUE

\* line 219: no original address is saved for iface yet
NeedsCapture(state, iface) == ~Has(state["original_macs"], iface)

\* lines 221-223: a truthy result of get_current_mac is kept
CaptureOriginal(state, iface, orig) ==
  IF orig # None
  THEN Put(state, "original_macs", Put(state["original_macs"], iface, orig))
  ELSE state

\* state.setdefault('spoofed_macs', {})[iface] = new_mac
RecordSpoofed(state, iface, new_mac) ==
  Put(state, "spoofed_macs", Put(GetMap(state, "spoofed_macs"), iface, new_mac))

\* the body once iface is known
mac_spoof(iface, okShow, rnd, okSet) ==
  LET state0  == load_state(file)
      state01 == WithOriginals(state0)
      queried == NeedsCapture(state01, iface)
      orig    == IF queried THEN get_current_mac(host, iface, okShow) ELSE None
      state1  == CaptureOriginal(state01, iface, orig)
      new_mac == generate_random_mac(rnd)
      host1   == SetAddress(host, iface, new_mac, okSet)
      state2  == RecordSpoofed(state1, iface, new_mac)
      cmds    == (IF orig # None THEN <<"save_state">> ELSE <<>>)
                 \o SetAddressCmds(iface, new_mac) \o <<"save_state">>
      okCmds  == (IF orig # None THEN {"get_mac"} ELSE {})
                 \cup (IF Effective(host, iface, okSet) THEN {"set_mac"} ELSE {})
  IN [file |-> save_state(state2), host |-> host1, log |-> cmds,
      last |-> Report("SpoofAddress", FALSE, iface, state0, <<>>, <<>>,
                      "", okCmds, new_mac),
      octets |-> generate_random_mac_octets(rnd)]

----------------------------------------------------------------------------
(* restore_changes and restore_monitor_only *)

\* one interface of the loop, preferring `macchanger -p` whenever the helper
\* is installed
RestoreOneMac_revertFirst(h, iface, origs, ok) ==
  IF macchanger
  THEN [host |-> RevertAddress(h, iface, ok),
        cmds |-> <<"ip link set " \o iface \o " down",
                   "macchanger -p " \o iface,
                   "ip link set " \o iface \o " up">>]
  ELSE IF Has(origs, iface)
       THEN [host |-> SetAddress(h, iface, origs[iface], ok),
             cmds |-> SetAddressCmds(iface, origs[iface])]
       ELSE [host |-> h, cmds |-> <<>>]

\* one pass of the loop over spoofed_macs: [host, cmds]
RestoreOneMac(h, iface, origs, ok) ==
  IF Has(origs, iface)
  THEN [host |-> SetAddress(h, iface, origs[iface], ok),
        cmds |-> SetAddressCmds(iface, origs[iface])]
  ELSE IF macchanger
       THEN [host |-> RevertAddress(h, iface, ok),
             cmds |-> <<"ip link set " \o iface \o " down",
                        "macchanger -p " \o iface,
                        "ip link set " \o iface \o " up">>]
       ELSE [host |-> h, cmds |-> <<>>]

\* the whole loop, over the interfaces in ifs; okMac[iface] is the outcome
\* of the address command for iface
RECURSIVE RestoreMacs(_, _, _, _)
RestoreMacs(h, ifs, origs, okMac) ==
  IF ifs = <<>> THEN [host |-> h, cmds |-> <<>>]
  ELSE LET one  == RestoreOneMac(h, Head(ifs), origs, okMac[Head(ifs)])
           rest == RestoreMacs(one.host, Tail(ifs), origs, okMac)
       IN [host |-> rest.host, cmds |-> one.cmds \o rest.cmds]

\* leaving monitor mode: airmon-ng stop <mon>, or the manual sequence on
\* original_interface: [host, cmds, ok]
StopMonitor(h, state, ok) ==
  LET mon == state["monitor_interface"]
  IN IF airmon
     THEN [host |-> AirmonStop(h, mon, ok),
           cmds |-> <<"airmon-ng stop " \o mon>>,
           ok   |-> Effective(h, mon, ok)]
     ELSE IF Has(state, "original_interface")
          THEN LET orig_iface == state["original_interface"]
               IN [host |-> IwSetType(h, orig_iface, "managed", ok),
                   cmds |-> <<"ip link set dev " \o orig_iface \o " down",
                              "iw dev " \o orig_iface \o " set type managed",
                              "ip link set dev " \o orig_iface \o " up">>,
                   ok   |-> Effective(h, orig_iface, ok)]
          ELSE [host |-> h, cmds |-> <<>>, ok |-> FALSE]

\* what the operator may answer to "Stop monitor mode ...? [y/N]"
Answers == {"y", "n"}

StopChosen(ans) == ans \in {"y", "yes"}

\* clear_after also set in the branch that keeps monitor mode
ClearAfter_always(state, ans) == TRUE

\* clear_after left False in the branch that stops monitor mode
ClearAfter_onlyWithoutMonitor(state, ans) == ~Has(state, "monitor_interface")

\* clear_after at line 337
ClearAfter(state, ans) ==
  IF Has(state, "monitor_interface") THEN StopChosen(ans) ELSE TRUE

\* the kept state saved without the mark
KeepMonitorState_unmarked(state) == state

\* lines 328-329: the state saved when monitor mode is kept
KeepMonitorState(state) == Put(state, "monitor_left", TRUE)

\* state.get('networkmanager_stopped')
NmStartDue(state) == Has(state, "networkmanager_stopped")

\* the steps of restore_changes with NetworkManager started first
RestoreOrder_nmFirst(macCmds, monCmds, nmCmds, endCmds) ==
  nmCmds \o macCmds \o monCmds \o endCmds

\* the order of the steps of restore_changes after the load: the address
\* loop, the monitor-mode question and its branch, NetworkManager, the end
RestoreOrder(macCmds, monCmds, nmCmds, endCmds) ==
  macCmds \o monCmds \o nmCmds \o endCmds

\* the order of the steps of restore_monitor_only with a monitor interface
MonitorOnlyOrder(monCmds, nmCmds, endCmds) == monCmds \o nmCmds \o endCmds

\* restore_changes on a non-empty state
restore_changes(ans, okMac, okMon, okStart) ==
  LET state   == load_state(file)
      spoofed == GetMap(state, "spoofed_macs")
      origs   == GetMap(state, "original_macs")
      macs    == RestoreMacs(host, SeqOf(DOMAIN spoofed), origs, okMac)
      hasMon  == Has(state, "monitor_interface")
      stop    == hasMon /\ StopChosen(ans)
      mon     == IF stop THEN StopMonitor(macs.host, state, okMon)
                 ELSE [host |-> macs.host, cmds |-> <<>>, ok |-> FALSE]
      file1   == IF hasMon /\ ~StopChosen(ans)
                 THEN save_state(KeepMonitorState(state)) ELSE file
      start   == NmStartDue(state)
      host3   == IF start THEN SystemctlStart(mon.host, okStart) ELSE mon.host
      cmds    == RestoreOrder(
                   macs.cmds,
                   IF hasMon /\ ~StopChosen(ans) THEN <<"save_state">>
                   ELSE mon.cmds,
                   IF start THEN <<"systemctl start NetworkManager">>
                   ELSE <<>>,
                   IF ClearAfter(state, ans) THEN <<"clear_state">> ELSE <<>>)
      okCmds  == (IF mon.ok THEN {"mon_stop"} ELSE {})
                 \cup (IF start /\ okStart THEN {"nm_start"} ELSE {})
  IN [file |-> IF ClearAfter(state, ans) THEN clear_state(file1) ELSE file1,
      host |-> host3, log |-> cmds,
      last |-> Report("RestoreAll", FALSE, None, state, <<>>, <<>>,
                      IF hasMon THEN ans ELSE "", okCmds, None)]

\* restore_monitor_only on a non-empty state
restore_monitor_only(okMon, okStart) ==
  LET state == load_state(file)
  IN IF ~Has(state, "monitor_interface")
     THEN [file |-> clear_state(file), host |-> host,
           log |-> <<"clear_state">>,
           last |-> Report("RestoreMonitorOnly", FALSE, None, state,
                           <<>>, <<>>, "", {}, None)]
     ELSE LET mon    == StopMonitor(host, state, okMon)
              start  == NmStartDue(state)
              host2  == IF start THEN SystemctlStart(mon.host, okStart)
                        ELSE mon.host
              cmds   == MonitorOnlyOrder(
                          mon.cmds,
                          IF start THEN <<"systemctl start NetworkManager">>
                          ELSE <<>>,
                          <<"clear_state">>)
              okCmds == (IF mon.ok THEN {"mon_stop"} ELSE {})
                        \cup (IF start /\ okStart THEN {"nm_start"} ELSE {})
          IN [file |-> clear_state(file), host |-> host2, log |-> cmds,
              last |-> Report("RestoreMonitorOnly", FALSE, None, state,
                              <<>>, <<>>, "", okCmds, None)]

----------------------------------------------------------------------------
(* The menu: one action per operation *)

\* hardware address the host shows for iface right now (None: no such iface)
HwNow(iface) ==
  IF AdapterNamed(host, iface) # {}
  THEN host.mac[CHOOSE a \in AdapterNamed(host, iface) : TRUE]
  ELSE None

\* outcomes to consider for a command: both when it is issued on an
\* interface that exists (or on no interface), success alone when it is not
\* issued or cannot succeed
Outcomes(issued) == IF issued THEN BOOLEAN ELSE {TRUE}

Exists(iface) == AdapterNamed(host, iface) # {}

\* number of FALSE among the outcomes in oks
Failures(oks) == Cardinality({i \in 1..Len(oks) : ~oks[i]})

\* the operation produced r; the bookkeeping variables follow
Finish(r, oks) ==
  /\ faults + Failures(oks) <= MaxFaults
  /\ faults' = faults + Failures(oks)
  /\ file' = r.file
  /\ host' = r.host
  /\ log' = r.log
  /\ last' = r.last
  /\ chain' = NextChain(r.last)
  /\ ops' = ops + 1
  /\ firstHw' = IF ~r.file.exists THEN EmptyDict
                ELSE IF r.last.op = "SpoofAddress" /\ ~r.last.aborted
                        /\ ~Has(firstHw, r.last.iface)
                     THEN Put(firstHw, r.last.iface, HwNow(r.last.iface))
                     ELSE firstHw
  /\ octets' = IF "octets" \in DOMAIN r THEN r.octets ELSE <<>>
  /\ UNCHANGED <<airmon, macchanger>>

\* what the operator types at a numbered interface prompt: 0 and
\* Len(AdapterOrder) + 1 stand for every invalid entry
Choices == 0..(Len(AdapterOrder) + 1)

ApplyStealthMode ==
  /\ ops < MaxOps
  /\ \E confirm \in {"YES", "no"} :
       IF confirm # "YES"
       THEN Finish(Aborted("ApplyStealthMode"), <<>>)
       ELSE \E okDetect \in BOOLEAN, choice \in Choices :
              LET iface == choose_interface(
                             detect_wireless_interfaces(host, okDetect), choice)
              IN IF iface = None
                 THEN Finish(Aborted("ApplyStealthMode"), <<okDetect>>)
                 ELSE \E okStop \in BOOLEAN, okSwitch \in BOOLEAN :
                        \* the enumerations are used with the helper only
                        \E okBefore \in Outcomes(airmon),
                           okAfter \in Outcomes(airmon),
                           renames \in (IF airmon /\ okSwitch THEN BOOLEAN
                                        ELSE {FALSE}) :
                          Finish(stealth_mode(iface, okBefore, okStop,
                                              okSwitch, renames, okAfter),
                                 <<okBefore, okStop, okSwitch, okAfter>>)

\* mac_spoof queries the address when none is saved for iface
Queries(iface) == ~Has(GetMap(load_state(file), "original_macs"), iface)

SpoofAddress ==
  /\ ops < MaxOps
  \* the operator types the name of an interface that exists, or presses
  \* Enter and picks one by number
  /\ \E typed \in {n \in Names : Exists(n)} \cup {""} :
       IF typed # ""
       THEN \E okShow \in Outcomes(Queries(typed)),
               rnd \in RandomOctets, okSet \in BOOLEAN :
              Finish(mac_spoof(typed, okShow, rnd, okSet), <<okShow, okSet>>)
       ELSE \E okDetect \in BOOLEAN, choice \in Choices :
              LET iface == choose_interface(
                             detect_wireless_interfaces(host, okDetect), choice)
              IN IF iface = None
                 THEN Finish(Aborted("SpoofAddress"), <<okDetect>>)
                 ELSE \E okShow \in Outcomes(Queries(iface)),
                         rnd \in RandomOctets, okSet \in BOOLEAN :
                        Finish(mac_spoof(iface, okShow, rnd, okSet),
                               <<okShow, okSet>>)

\* restore_changes issues an address command for iface that can succeed
RestoresMac(state, iface) ==
  /\ Has(GetMap(state, "original_macs"), iface) \/ macchanger
  /\ Exists(iface)

\* leaving monitor mode issues a command that can succeed
StopsMonitor(state) ==
  /\ Has(state, "monitor_interface")
  /\ IF airmon THEN Exists(state["monitor_interface"])
     ELSE Has(state, "original_interface")
          /\ Exists(state["original_interface"])

RestoreAll ==
  /\ ops < MaxOps
  /\ LET state == load_state(file)
     IN IF state = EmptyDict
        THEN Finish(Aborted("RestoreAll"), <<>>)
        ELSE \E ans \in (IF Has(state, "monitor_interface") THEN Answers
                         ELSE {""}) :
             \E okMon \in Outcomes(StopChosen(ans) /\ StopsMonitor(state)),
                okStart \in Outcomes(NmStartDue(state)),
                okMac \in [DOMAIN GetMap(state, "spoofed_macs") -> BOOLEAN] :
               /\ \A i \in DOMAIN okMac : ~RestoresMac(state, i) => okMac[i]
               /\ Finish(restore_changes(ans, okMac, okMon, okStart),
                         <<okMon, okStart>>
                         \o [i \in 1..Cardinality(DOMAIN okMac) |->
                               okMac[SeqOf(DOMAIN okMac)[i]]])

RestoreMonitorOnly ==
  /\ ops < MaxOps
  /\ LET state == load_state(file)
     IN IF state = EmptyDict
        THEN Finish(Aborted("RestoreMonitorOnly"), <<>>)
        ELSE \E okMon \in Outcomes(StopsMonitor(state)),
                okStart \in Outcomes(Has(state, "monitor_interface")
                                     /\ NmStartDue(state)) :
               Finish(restore_monitor_only(okMon, okStart),
                      <<okMon, okStart>>)

Init ==
  /\ file = NoFile
  /\ host = InitHost
  /\ airmon \in BOOLEAN
  /\ macchanger \in BOOLEAN
  /\ log = <<>>
  /\ last = NoReport
  /\ chain = ""
  /\ ops = 0
  /\ faults = 0
  /\ firstHw = EmptyDict
  /\ octets = <<>>

Next ==
  \/ ApplyStealthMode
  \/ SpoofAddress
  \/ RestoreAll
  \/ RestoreMonitorOnly

Spec == Init /\ [][Next]_vars

----------------------------------------------------------------------------
(* An operation cut short between two of its steps.  A step is a group of
   commands together with the save_state that follows it, if any; the
   commands of the operation that is cut short all succeed. *)

\* stealth_mode: after the NetworkManager step (166-171), which is also the
\* state after `airmon-ng check kill` and `ip link set <iface> down`
stealth_mode_points(iface) ==
  LET state1 == NmStopState(load_state(file), TRUE)
  IN <<[file |-> save_state(state1), host |-> SystemctlStop(host, TRUE),
        log  |-> <<"systemctl stop NetworkManager", "save_state">>]>>

\* mac_spoof: after the capture of the original address (219-226), and after
\* the address commands (231-238) before the last save_state
mac_spoof_points(iface, rnd) ==
  LET state01 == WithOriginals(load_state(file))
      orig    == IF NeedsCapture(state01, iface)
                 THEN get_current_mac(host, iface, TRUE) ELSE None
      state1  == CaptureOriginal(state01, iface, orig)
      file1   == IF orig # None THEN save_state(state1) ELSE file
      new_mac == generate_random_mac(rnd)
      cmds1   == IF orig # None THEN <<"save_state">> ELSE <<>>
  IN <<[file |-> file1, host |-> host, log |-> cmds1],
       [file |-> file1, host |-> SetAddress(host, iface, new_mac, TRUE),
        log  |-> cmds1 \o SetAddressCmds(iface, new_mac)]>>

\* restore_changes: after the address loop (287-305), after the monitor
\* branch (308-330), after the NetworkManager start (333-335)
restore_changes_points(ans) ==
  LET state   == load_state(file)
      spoofed == GetMap(state, "spoofed_macs")
      origs   == GetMap(state, "original_macs")
      macs    == RestoreMacs(host, SeqOf(DOMAIN spoofed), origs,
                             [i \in DOMAIN spoofed |-> TRUE])
      hasMon  == Has(state, "monitor_interface")
      stop    == hasMon /\ StopChosen(ans)
      mon     == IF stop THEN StopMonitor(macs.host, state, TRUE)
                 ELSE [host |-> macs.host, cmds |-> <<>>, ok |-> FALSE]
      file1   == IF hasMon /\ ~StopChosen(ans)
                 THEN save_state(KeepMonitorState(state)) ELSE file
      monCmds == IF hasMon /\ ~StopChosen(ans) THEN <<"save_state">>
                 ELSE mon.cmds
      start   == NmStartDue(state)
  IN <<[file |-> file, host |-> macs.host, log |-> macs.cmds],
       [file |-> file1, host |-> mon.host, log |-> macs.cmds \o monCmds]>>
     \o (IF start
         THEN <<[file |-> file1, host |-> SystemctlStart(mon.host, TRUE),
                 log  |-> macs.cmds \o monCmds
                          \o <<"systemctl start NetworkManager">>]>>
         ELSE <<>>)

\* restore_monitor_only with a monitor interface: after leaving monitor mode
\* (359-368), after the NetworkManager start (371-373)
restore_monitor_only_points ==
  LET state == load_state(file)
  IN IF ~Has(state, "monitor_interface") THEN <<>>
     ELSE LET mon == StopMonitor(host, state, TRUE)
          IN <<[file |-> file, host |-> mon.host, log |-> mon.cmds]>>
             \o (IF NmStartDue(state)
                 THEN <<[file |-> file,
                         host |-> SystemctlStart(mon.host, TRUE),
                         log  |-> mon.cmds
                                  \o <<"systemctl start NetworkManager">>]>>
                 ELSE <<>>)

\* the operation op stops for good at point pt; nothing is run afterwards
CrashAt(op, pt) ==
  /\ file' = pt.file
  /\ host' = pt.host
  /\ log' = pt.log
  /\ last' = Report(op \o " (crashed)", FALSE, None, load_state(file),
                    <<>>, <<>>, "", {}, None)
  /\ chain' = ""
  /\ ops' = MaxOps
  /\ octets' = <<>>
  /\ UNCHANGED <<airmon, macchanger, faults, firstHw>>

Crash ==
  /\ ops < MaxOps
  /\ \/ \E iface \in {n \in Names : Exists(n)} :
          \E pt \in Range(stealth_mode_points(iface)) :
            CrashAt("ApplyStealthMode", pt)
     \/ \E iface \in {n \in Names : Exists(n)}, rnd \in RandomOctets :
          \E pt \in Range(mac_spoof_points(iface, rnd)) :
            CrashAt("SpoofAddress", pt)
     \/ /\ load_state(file) # EmptyDict
        /\ \E ans \in (IF Has(load_state(file), "monitor_interface")
                        THEN Answers ELSE {""}) :
             \E pt \in Range(restore_changes_points(ans)) :
               CrashAt("RestoreAll", pt)
     \/ /\ load_state(file) # EmptyDict
        /\ \E pt \in Range(restore_monitor_only_points) :
             CrashAt("RestoreMonitorOnly", pt)

SpecCrash == Init /\ [][Next \/ Crash]_vars

\* the bytes of the state file get damaged between two operations (a torn
\* write, an edit by hand): json.loads will raise on them
CorruptFile ==
  /\ file.exists /\ file.valid
  /\ faults < MaxFaults
  /\ faults' = faults + 1
  /\ file' = [file EXCEPT !.valid = FALSE]
  /\ UNCHANGED <<host, airmon, macchanger, log, last, chain, ops, firstHw,
                 octets>>

SpecCorrupt == Init /\ [][Next \/ CorruptFile]_vars

\* generate_random_mac called on its own, over OctetDraws; it keeps nothing
\* between calls, so one call per behaviour shows all it can return
GenerateMac ==
  \E rnd \in OctetDraws :
    /\ octets = <<>>
    /\ octets' = generate_random_mac_octets(rnd)
    /\ last' = Report("generate_random_mac", FALSE, None, load_state(file),
                      <<>>, <<>>, "", {}, generate_random_mac(rnd))
    /\ UNCHANGED <<file, host, airmon, macchanger, log, chain, ops, faults,
                   firstHw>>

SpecMac == Init /\ [][GenerateMac]_vars

----------------------------------------------------------------------------
(* Properties *)

\* the saved state as the next operation would load it
Saved == load_state(file)

SavedOriginals == GetMap(Saved, "original_macs")

SavedSpoofed == GetMap(Saved, "spoofed_macs")

\* the latest operation ran its body
Ran(op) == last.op = op /\ ~last.aborted

\* the operator answered the monitor-mode question with y or yes
AnsweredStop == last.ans \in {"y", "yes"}

\* the operator was asked the monitor-mode question and kept monitor mode
AnsweredKeep == Has(last.loaded, "monitor_interface") /\ ~AnsweredStop

StartCmd == "systemctl start NetworkManager"

\* C1: after stealth_mode, then mac_spoof, then restore_changes in which the
\* operator has monitor mode stopped, the state file is gone and the saved
\* state is the empty one, whatever the commands returned and whichever
\* helpers are installed.
C1_StopAfterStealthAndSpoofClears ==
  (chain = "Apply;Spoof;Restore" /\ AnsweredStop)
    => (~file.exists /\ Saved = EmptyDict)

C1_Witness ==
  /\ chain = "Apply;Spoof;Restore"
  /\ Ran("RestoreAll")
  /\ AnsweredStop
  /\ Has(last.loaded, "spoofed_macs")
  /\ ~file.exists

\* C2: restore_monitor_only always ends with the state file gone, whatever
\* state it started from.
C2_MonitorOnlyClears ==
  last.op = "RestoreMonitorOnly" => (~file.exists /\ Saved = EmptyDict)

C2_Witness ==
  /\ Ran("RestoreMonitorOnly")
  /\ Has(last.loaded, "monitor_left")
  /\ ~file.exists

\* C3: after stealth_mode followed by restore_changes in which the operator
\* keeps monitor mode, the saved state has monitor_interface, has
\* monitor_left = True, and has an original or spoofed address only for
\* interfaces mac_spoof was applied to.
C3_KeepAfterStealth ==
  (chain = "Apply;Restore" /\ AnsweredKeep)
    => /\ file.exists
       /\ Has(Saved, "monitor_interface")
       /\ Has(Saved, "monitor_left")
       /\ Saved["monitor_left"] = TRUE
       /\ \A i \in (DOMAIN SavedOriginals) \cup (DOMAIN SavedSpoofed) :
            Has(firstHw, i)

C3_Witness ==
  /\ chain = "Apply;Restore"
  /\ Ran("RestoreAll")
  /\ AnsweredKeep
  /\ Has(Saved, "monitor_left")
  /\ ~Has(Saved, "spoofed_macs")

\* C4: after restore_changes the state file is gone or holds nothing but
\* monitor_interface, original_interface and monitor_left.
C4_ResidualIsMinimal ==
  (Ran("RestoreAll") /\ file.exists)
    => DOMAIN Saved \subseteq
         {"monitor_interface", "original_interface", "monitor_left"}

\* C5: restore_changes on a non-empty state removes the state file exactly
\* when no monitor interface is saved or the operator has monitor mode
\* stopped; with a monitor interface saved and monitor mode kept, the file
\* stays.
C5_ClearedIffStoppedOrNoMonitor ==
  Ran("RestoreAll")
    => (~file.exists
          <=> (~Has(last.loaded, "monitor_interface") \/ AnsweredStop))

C5_Witness ==
  /\ Ran("RestoreAll")
  /\ AnsweredKeep
  /\ file.exists

C7_OriginalIsPreSpoofAddress ==
  \A i \in DOMAIN SavedOriginals :
    /\ Has(firstHw, i)
    /\ SavedOriginals[i] = firstHw[i]
    /\ SavedOriginals[i] \notin GeneratedMacs

\* C8 as stated: after stealth_mode on target, original_interface is target
\* and monitor_interface is an interface of the second enumeration that is
\* not in the first; when there is none, monitor_interface is target.
C8_MonitorIsNewElseTarget ==
  Ran("ApplyStealthMode")
    => LET new == Range(last.after) \ Range(last.before)
       IN /\ Saved["original_interface"] = last.iface
          /\ IF new # {} THEN Saved["monitor_interface"] \in new
             ELSE Saved["monitor_interface"] = last.iface

\* C8 amended: as C8, but when no interface is new monitor_interface is
\* target + "mon" if airmon-ng was used and target on the manual path.
C8_MonitorIsNewElseGuess ==
  Ran("ApplyStealthMode")
    => LET new == Range(last.after) \ Range(last.before)
       IN /\ Saved["original_interface"] = last.iface
          /\ IF new # {} THEN Saved["monitor_interface"] \in new
             ELSE Saved["monitor_interface"] =
                    (IF airmon THEN last.iface \o "mon" ELSE last.iface)

C8_Witness ==
  /\ Ran("ApplyStealthMode")
  /\ airmon
  /\ "mode_switch" \in last.okCmds
  /\ last.after # <<>>
  /\ Range(last.after) \ Range(last.before) = {}
  /\ Saved["monitor_interface"] = last.iface \o "mon"

\* C9: a stealth_mode whose `systemctl stop NetworkManager` fails does not
\* set networkmanager_stopped, no other operation sets it, and a restore
\* issues `systemctl start NetworkManager` only when the state it loaded has
\* networkmanager_stopped.
C9_StartOnlyAfterRecordedStop ==
  /\ (Ran("ApplyStealthMode") /\ "nm_stop" \notin last.okCmds)
       => (Has(Saved, "networkmanager_stopped")
             <=> Has(last.loaded, "networkmanager_stopped"))
  /\ last.op # "ApplyStealthMode"
       => (Has(Saved, "networkmanager_stopped")
             => Has(last.loaded, "networkmanager_stopped"))
  /\ last.op \in {"RestoreAll", "RestoreMonitorOnly"}
       => (StartCmd \in Range(log)
             => Has(last.loaded, "networkmanager_stopped"))

C9_Witness ==
  /\ chain = "Apply;Restore"
  /\ Ran("RestoreAll")
  /\ ~Has(last.loaded, "networkmanager_stopped")
  /\ StartCmd \notin Range(log)
  /\ host.nm

\* C10: a stealth_mode whose mode-switch command fails saves no
\* monitor_interface or original_interface, and a mac_spoof whose
\* set-address command fails saves no spoofed_macs[iface].
C10_OnlySucceededActionsSaved ==
  /\ (Ran("ApplyStealthMode") /\ "mode_switch" \notin last.okCmds
        /\ ~Has(last.loaded, "monitor_interface"))
       => (~Has(Saved, "monitor_interface")
             /\ ~Has(Saved, "original_interface"))
  /\ (Ran("SpoofAddress") /\ "set_mac" \notin last.okCmds
        /\ ~Has(GetMap(last.loaded, "spoofed_macs"), last.iface))
       => ~Has(SavedSpoofed, last.iface)

----------------------------------------------------------------------------
(* Restoring addresses, aborted operations, the monitor fields *)

LoadedSpoofed == GetMap(last.loaded, "spoofed_macs")

LoadedOriginals == GetMap(last.loaded, "original_macs")

\* a command that sets the hardware address of iface to mac, by either helper
SetsAddress(cmd, iface, mac) ==
  \/ cmd = "macchanger -m " \o mac \o " " \o iface
  \/ cmd = "ip link set dev " \o iface \o " address " \o mac

\* C14: RestoreAll issues, for every interface in spoofed_macs whose original
\* address is recorded, a set-address command on that interface carrying
\* exactly the recorded original, whatever the operator answers and
\* whichever helper is installed; when the loaded record has no monitor
\* interface the operator is asked nothing and the state file is removed as
\* the last step.
C14_RestoreSetsRecordedOriginal ==
  Ran("RestoreAll") =>
    /\ \A i \in DOMAIN LoadedSpoofed :
         Has(LoadedOriginals, i) =>
           \E k \in 1..Len(log) : SetsAddress(log[k], i, LoadedOriginals[i])
    /\ ~Has(last.loaded, "monitor_interface") =>
         /\ last.ans = ""
         /\ ~file.exists
         /\ log # <<>> /\ log[Len(log)] = "clear_state"

\* RestoreAll after a spoof alone: the address is back to the recorded one
\* and the file is gone
C14_Witness ==
  /\ Ran("RestoreAll")
  /\ ~Has(last.loaded, "monitor_interface")
  /\ Has(LoadedSpoofed, "wlan0") /\ Has(LoadedOriginals, "wlan0")
  /\ \E k \in 1..Len(log) :
       SetsAddress(log[k], "wlan0", LoadedOriginals["wlan0"])
  /\ HwNow("wlan0") = LoadedOriginals["wlan0"]
  /\ ~file.exists

SwitchesMode(cmd) ==
  \E n \in Names : \/ cmd = "airmon-ng start " \o n
                    \/ cmd = "iw dev " \o n \o " set type monitor"

\* C18: the saved record holds monitor_interface exactly when an
\* ApplyStealthMode has issued a mode-switch command since the file was last
\* removed: only a stealth_mode that issued the switch adds the field (and
\* it always does), no other operation adds monitor_interface or
\* original_interface, the field stays while the file stays, and wherever
\* monitor_interface is saved original_interface is saved too.
C18_MonitorFieldsOnlyFromStealth ==
  /\ Has(Saved, "monitor_interface") => Has(Saved, "original_interface")
  /\ \A k \in {"monitor_interface", "original_interface"} :
       (Has(Saved, k) /\ ~Has(last.loaded, k)) =>
         /\ Ran("ApplyStealthMode")
         /\ \E j \in 1..Len(log) : SwitchesMode(log[j])
  /\ Ran("ApplyStealthMode") =>
       /\ \E j \in 1..Len(log) : SwitchesMode(log[j])
       /\ Has(Saved, "monitor_interface")
  /\ (Has(last.loaded, "monitor_interface") /\ file.exists) =>
       Has(Saved, "monitor_interface")

\* stealth_mode added both fields to a record that had neither
C18_Witness ==
  /\ Ran("ApplyStealthMode")
  /\ ~Has(last.loaded, "monitor_interface")
  /\ Has(Saved, "monitor_interface") /\ Has(Saved, "original_interface")
  /\ \E j \in 1..Len(log) : SwitchesMode(log[j])

----------------------------------------------------------------------------
(* What a restore leaves recorded, and when it removes the record *)

Restores == {"RestoreAll", "RestoreMonitorOnly"}

\* a command of the latest operation that tries to give iface its own
\* address back
AttemptsRestore(cmd, iface) ==
  \/ cmd = "macchanger -p " \o iface
  \/ Has(LoadedOriginals, iface)
     /\ SetsAddress(cmd, iface, LoadedOriginals[iface])

\* a command of the latest operation that leaves monitor mode
LeavesMonitor(cmd) ==
  \E n \in Names : \/ cmd = "airmon-ng stop " \o n
                    \/ cmd = "iw dev " \o n \o " set type managed"

\* interfaces of the loaded record that restore_changes cannot restore
Unrecoverable ==
  {i \in DOMAIN LoadedSpoofed : ~Has(LoadedOriginals, i) /\ ~macchanger}

\* C12: after a RestoreAll that met an interface with a spoofed address
\* recorded, no original recorded and no macchanger, the saved record still
\* lists that interface in spoofed_macs, and the other steps were taken: the
\* recoverable interfaces got their command, monitor mode was left if the
\* operator chose so, NetworkManager was started if recorded as stopped.
C12_UnrecoverableStaysRecorded ==
  (Ran("RestoreAll") /\ Unrecoverable # {}) =>
    /\ \A i \in Unrecoverable : Has(SavedSpoofed, i)
    /\ \A i \in DOMAIN LoadedSpoofed \ Unrecoverable :
         \E k \in 1..Len(log) : AttemptsRestore(log[k], i)
    /\ (Has(last.loaded, "monitor_interface") /\ AnsweredStop) =>
         \E k \in 1..Len(log) : LeavesMonitor(log[k])
    /\ NmStartDue(last.loaded) => \E k \in 1..Len(log) : log[k] = StartCmd

\* C13: a restore removes the state file only if, for everything the loaded
\* record lists, the reversal was at least attempted: an address command for
\* every interface in spoofed_macs, a command leaving monitor mode if
\* monitor_interface is recorded, the NetworkManager start if it is recorded
\* as stopped.
C13_DeletedOnlyWhenAllReversed ==
  (last.op \in Restores /\ ~last.aborted
   /\ \E k \in 1..Len(log) : log[k] = "clear_state") =>
    /\ \A i \in DOMAIN LoadedSpoofed :
         \E k \in 1..Len(log) : AttemptsRestore(log[k], i)
    /\ Has(last.loaded, "monitor_interface") =>
         \E k \in 1..Len(log) : LeavesMonitor(log[k])
    /\ NmStartDue(last.loaded) => \E k \in 1..Len(log) : log[k] = StartCmd

\* C19: once a RestoreAll that keeps monitor mode has started
\* NetworkManager, the restore that follows it does not issue the start
\* again (no ApplyStealthMode ran in between to stop the service again).
C19_StartAtMostOnce ==
  [][(/\ Ran("RestoreAll") /\ AnsweredKeep /\ "nm_start" \in last.okCmds
      /\ ops' = ops + 1
      /\ last'.op \in Restores)
     => \A k \in 1..Len(log') : log'[k] # StartCmd]_vars

----------------------------------------------------------------------------
(* The order of the steps inside one restore *)

\* the step of a restore that a log entry belongs to: 1 an address restore,
\* 2 leaving monitor mode, 3 the NetworkManager start, 4 removing the state
\* file, 0 anything else (interface down/up, save_state)
StepOf(cmd) ==
  IF \E i \in DOMAIN LoadedSpoofed : AttemptsRestore(cmd, i) THEN 1
  ELSE IF LeavesMonitor(cmd) THEN 2
  ELSE IF cmd = StartCmd THEN 3
  ELSE IF cmd = "clear_state" THEN 4
  ELSE 0

\* C20: within one RestoreAll every address restore comes before leaving
\* monitor mode, which comes before the NetworkManager start, and removing
\* the state file, when it happens, is the last step; within one
\* RestoreMonitorOnly leaving monitor mode comes before the start, which
\* comes before removing the file, and it restores no address.
C20_RestoreStepsInOrder ==
  (last.op \in Restores /\ ~last.aborted) =>
    /\ \A j, k \in 1..Len(log) :
         (j < k /\ StepOf(log[j]) # 0 /\ StepOf(log[k]) # 0) =>
           StepOf(log[j]) <= StepOf(log[k])
    /\ \A k \in 1..Len(log) : StepOf(log[k]) = 4 => k = Len(log)
    /\ Ran("RestoreMonitorOnly") =>
         \A k \in 1..Len(log) : StepOf(log[k]) # 1

\* a RestoreAll that took all four steps
C20_Witness ==
  /\ Ran("RestoreAll")
  /\ \E j1, j2, j3, j4 \in 1..Len(log) :
       /\ j1 < j2 /\ j2 < j3 /\ j3 < j4
       /\ StepOf(log[j1]) = 1 /\ StepOf(log[j2]) = 2
       /\ StepOf(log[j3]) = 3 /\ StepOf(log[j4]) = 4

----------------------------------------------------------------------------
(* The generated address *)

\* C16: in every address generate_random_mac builds, whatever the five
\* draws, bit 0 of the first octet is 0 (unicast) and bit 1 is 1 (locally
\* administered), and each of the other five octets lies in 0..255.
C16_LocalUnicast ==
  octets # <<>> =>
    /\ Len(octets) = 6
    /\ octets[1] % 2 = 0
    /\ (octets[1] \div 2) % 2 = 1
    /\ \A j \in 2..6 : octets[j] \in 0..MaxOctet

\* a generated address with both ends of the range and a value in between
C16_Witness ==
  /\ octets = <<2, 255, 255, 137, 255, 255>>
  /\ last.op = "generate_random_mac"
  /\ last.mac = "02:ff:ff:89:ff:ff"

----------------------------------------------------------------------------
(* A missing or damaged state file *)

Unloadable == ~file.exists \/ ~file.valid

\* C15: on a missing state file and on one whose content does not parse,
\* load_state returns the empty record, and a restore that follows takes it
\* for "no saved state": it issues no command and leaves the host and the
\* file as they are.
C15_UnloadableIsNoState ==
  [][(Unloadable /\ ops' = ops + 1 /\ last'.op \in Restores)
     => /\ last'.loaded = EmptyDict
        /\ last'.aborted
        /\ log' = <<>> /\ host' = host /\ file' = file]_vars

\* a restore that found a damaged file written by an earlier operation
C15_Witness ==
  /\ last.op \in Restores /\ last.aborted
  /\ file.exists /\ ~file.valid /\ file.data # EmptyDict
  /\ last.loaded = EmptyDict /\ log = <<>>

----------------------------------------------------------------------------
(* The record against the host when an operation is cut short *)

Crashed ==
  last.op \in {op \o " (crashed)" :
                op \in {"ApplyStealthMode", "SpoofAddress"} \cup Restores}

\* names of the interfaces whose address is not their own
SpoofedNow == {NameOf(host, a) : a \in {b \in Adapters : host.mac[b] # PermMac[b]}}

MonitorNow == \E a \in Adapters : host.mode[a] = "monitor"

\* C11: wherever one of the four operations is cut short between two of its
\* steps, what is applied on the host and not yet reversed is what the saved
\* record describes: NetworkManager is stopped exactly if the record says
\* so, an interface is in monitor mode exactly if monitor_interface is
\* recorded, and the interfaces carrying a spoofed address are those of
\* spoofed_macs.
C11_CrashLeavesTrueRecord ==
  Crashed =>
    /\ ~host.nm <=> Has(Saved, "networkmanager_stopped")
    /\ MonitorNow <=> Has(Saved, "monitor_interface")
    /\ SpoofedNow = DOMAIN SavedSpoofed

====
